---------------------------- MODULE Spec2Model ----------------------------
(***************************************************************************)
(* Model of two utilities of SMASH:                                        *)
(*   - InterpolateDataSpline (src/src/interpolation.cc): construction      *)
(*     (validation, sort, GSL natural cubic spline) and operator().        *)
(*   - RootOutput (src/src/include/smash/rootoutput.h): the event          *)
(*     callbacks, the AutoSave checkpoint and the file naming.             *)
(*                                                                         *)
(* Doubles are modelled as exact rationals <<numerator, denominator>>;     *)
(* the sample abscissae and ordinates are integers of a small grid.        *)
(***************************************************************************)
EXTENDS Integers, Sequences, FiniteSets, TLC

\* ------------------------------------------------------------------------
\* Bounds of the model
\* ------------------------------------------------------------------------
\* longest input vector
MaxLen == 3
\* abscissae are drawn from 0..MaxX
MaxX == 3
\* an abscissa with more significant digits than the stream prints
BigX == 1000001
\* calls of operator() on one interpolator (caps the accelerator's counters)
MaxEvals == 2
\* callers that share one interpolator
NumCallers == 2
\* events the driver runs
MaxEvents == 3
\* at_intermediate_time calls within one event
MaxIntermediate == 1
\* at_interaction calls within one run
MaxInteractions == 1
\* autosave_frequency_ is drawn from 1..MaxFrequency and the default
MaxFrequency == 2

\* "default N = 1000"
DefaultAutosaveFrequency == 1000

\* Default precision of a std::stringstream, used by `error_msg << sorted_x[i]`.
Precision == 6

\* Placeholders for what does not exist: a member of an object that was not
\* built, a call not made yet.
NoNumber == 0 - 1
NoRational == <<0, 0>>
NoSpline == [size |-> 0, x |-> <<>>, y |-> <<>>, c |-> <<>>]
NoAccel == [cache |-> NoNumber, hit_count |-> 0, miss_count |-> 0]
NoMessage == ""

\* ------------------------------------------------------------------------
\* Exact arithmetic on rationals <<n, d>>, d > 0, in lowest terms
\* ------------------------------------------------------------------------
Abs(n) == IF n < 0 THEN -n ELSE n

RECURSIVE GCD(_, _)
GCD(a, b) == IF b = 0 THEN a ELSE GCD(b, a % b)

RNorm(n, d) ==
  LET s == IF d < 0 THEN -1 ELSE 1
      g == GCD(Abs(n), Abs(d))
  IN  <<(s * n) \div g, (s * d) \div g>>

R(i) == <<i, 1>>
RAdd(a, b) == RNorm(a[1] * b[2] + b[1] * a[2], a[2] * b[2])
RSub(a, b) == RNorm(a[1] * b[2] - b[1] * a[2], a[2] * b[2])
RMul(a, b) == RNorm(a[1] * b[1], a[2] * b[2])
RDiv(a, b) == RNorm(a[1] * b[2], a[2] * b[1])
RLt(a, b) == a[1] * b[2] < b[1] * a[2]
RGt(a, b) == RLt(b, a)
RGe(a, b) == ~RLt(a, b)

\* ------------------------------------------------------------------------
\* interpolation.h helpers used by the constructor
\* ------------------------------------------------------------------------
\* Insert index i into the index list p, sorted by v, after every index whose
\* value does not compare greater (stable).
RECURSIVE InsertIndex(_, _, _)
InsertIndex(p, i, v) ==
  IF p = <<>> THEN <<i>>
  ELSE IF v[i] < v[Head(p)] THEN <<i>> \o p
       ELSE <<Head(p)>> \o InsertIndex(Tail(p), i, v)

RECURSIVE SortIndices(_, _)
SortIndices(v, k) ==
  IF k = 0 THEN <<>> ELSE InsertIndex(SortIndices(v, k - 1), k, v)

\* generate_sort_permutation(v, a < b): the indices of v in ascending order
\* of value, equal values kept in input order.
generate_sort_permutation(v) == SortIndices(v, Len(v))

\* apply_permutation(v, p): element i of the result is v[p[i]].
apply_permutation(v, p) == [i \in 1..Len(p) |-> v[p[i]]]

\* ------------------------------------------------------------------------
\* operator<< (std::ostream, double) at the default precision
\* ------------------------------------------------------------------------
RECURSIVE Pow10(_)
Pow10(k) == IF k = 0 THEN 1 ELSE 10 * Pow10(k - 1)

RECURSIVE NumDigits(_)
NumDigits(v) == IF v < 10 THEN 1 ELSE 1 + NumDigits(v \div 10)

\* The number that the text printed for the non-negative integral double v
\* denotes: v itself when it has at most Precision significant digits, else
\* v rounded (half to even) to Precision significant digits ("1e+06").
StreamDouble(v) ==
  LET digits == NumDigits(v)
  IN  IF digits <= Precision THEN v
      ELSE LET scale == Pow10(digits - Precision)
               q == v \div scale
               r == v % scale
               up == (2 * r > scale) \/ (2 * r = scale /\ q % 2 = 1)
           IN  (IF up THEN q + 1 ELSE q) * scale

\* ------------------------------------------------------------------------
\* GSL: gsl_interp_cspline (natural cubic spline) and gsl_interp_accel.
\* Arrays are 0-based as in C: XA(s, i) is s.x[i].
\* ------------------------------------------------------------------------
XA(s, i) == s.x[i + 1]
YA(s, i) == s.y[i + 1]
CA(s, i) == s.c[i + 1]

\* solve_tridiag of gsl_linalg_solve_symm_tridiag: A = L.D.L^T, then forward
\* and back substitution. diag, offdiag, b are 0-based functions; n >= 2.
SolveSymmTridiag(diag, offdiag, b, n) ==
  LET alpha[i \in 0..(n - 1)] ==
        IF i = 0 THEN diag[0]
        ELSE RSub(diag[i], RMul(offdiag[i - 1], RDiv(offdiag[i - 1], alpha[i - 1])))
      gamma == [i \in 0..(n - 2) |-> RDiv(offdiag[i], alpha[i])]
      z[i \in 0..(n - 1)] ==
        IF i = 0 THEN b[0] ELSE RSub(b[i], RMul(gamma[i - 1], z[i - 1]))
      c == [i \in 0..(n - 1) |-> RDiv(z[i], alpha[i])]
      sol[k \in 0..(n - 1)] ==
        \* sol[k] is x[n-1-k]
        IF k = 0 THEN c[n - 1]
        ELSE RSub(c[n - 1 - k], RMul(gamma[n - 1 - k], sol[k - 1]))
  IN  [i \in 0..(n - 1) |-> sol[n - 1 - i]]

\* cspline_init: the second-derivative coefficients c[0..N-1] of the natural
\* spline through (xa, ya); c[0] = c[N-1] = 0.
cspline_init(xa, ya) ==
  LET N == Len(xa)
      sys_size == N - 2
      h(i) == R(xa[i + 2] - xa[i + 1])
      ydiff(i) == R(ya[i + 2] - ya[i + 1])
      offdiag == [i \in 0..(sys_size - 1) |-> h(i + 1)]
      diag == [i \in 0..(sys_size - 1) |-> RMul(R(2), RAdd(h(i + 1), h(i)))]
      g == [i \in 0..(sys_size - 1) |->
              RMul(R(3), RSub(RDiv(ydiff(i + 1), h(i + 1)), RDiv(ydiff(i), h(i))))]
      inner == IF sys_size = 1 THEN [i \in {0} |-> RDiv(g[0], diag[0])]
               ELSE SolveSymmTridiag(diag, offdiag, g, sys_size)
  IN  [k \in 1..N |-> IF k = 1 \/ k = N THEN R(0) ELSE inner[k - 2]]

\* gsl_spline_alloc + gsl_spline_init: the spline keeps its own copy of the
\* arrays it is given.
gsl_spline_init(xa, ya) ==
  [size |-> Len(xa), x |-> xa, y |-> ya, c |-> cspline_init(xa, ya)]

\* gsl_interp_accel_alloc
gsl_interp_accel_alloc == [cache |-> 0, hit_count |-> 0, miss_count |-> 0]

\* gsl_interp_bsearch(xa, x, index_lo, index_hi)
RECURSIVE gsl_interp_bsearch(_, _, _, _)
gsl_interp_bsearch(s, x, ilo, ihi) ==
  IF ihi > ilo + 1
  THEN LET i == (ihi + ilo) \div 2
       IN  IF RGt(R(XA(s, i)), x) THEN gsl_interp_bsearch(s, x, ilo, i)
           ELSE gsl_interp_bsearch(s, x, i, ihi)
  ELSE ilo

\* The accelerator as gsl_interp_accel_find leaves it, having read x_index
\* from a->cache.
AccelUpdate(a, s, x, x_index) ==
  IF RLt(x, R(XA(s, x_index)))
  THEN [a EXCEPT !.miss_count = @ + 1,
                 !.cache = gsl_interp_bsearch(s, x, 0, x_index)]
  ELSE IF RGe(x, R(XA(s, x_index + 1)))
       THEN [a EXCEPT !.miss_count = @ + 1,
                      !.cache = gsl_interp_bsearch(s, x, x_index, s.size - 1)]
       ELSE [a EXCEPT !.hit_count = @ + 1]

\* cspline_eval on the interval [xa[index], xa[index+1]].
cspline_eval(s, x, index) ==
  LET x_lo == R(XA(s, index))
      x_hi == R(XA(s, index + 1))
      dx == RSub(x_hi, x_lo)
      dy == RSub(R(YA(s, index + 1)), R(YA(s, index)))
      delx == RSub(x, x_lo)
      c_i == CA(s, index)
      c_ip1 == CA(s, index + 1)
      b_i == RSub(RDiv(dy, dx),
                  RDiv(RMul(dx, RAdd(c_ip1, RMul(R(2), c_i))), R(3)))
      d_i == RDiv(RSub(c_ip1, c_i), RMul(R(3), dx))
  IN  RAdd(R(YA(s, index)),
           RMul(delx, RAdd(b_i, RMul(delx, RAdd(c_i, RMul(delx, d_i))))))

\* gsl_spline_eval(spline, x, acc) run without interruption: the value and
\* the accelerator it leaves behind.
gsl_spline_eval(s, x, a) ==
  LET a2 == AccelUpdate(a, s, x, a.cache)
  IN  [value |-> cspline_eval(s, x, a2.cache), acc |-> a2]


\* ------------------------------------------------------------------------
\* State
\* ------------------------------------------------------------------------
VARIABLES
  \* InterpolateDataSpline: the caller's vectors, the life cycle, the object
  pc, in_x, in_y, thrown,
  first_x_, last_x_, first_y_, last_y_, spline_, acc_,
  \* the last call of operator(): its argument and its result
  xi, ret,
  \* concurrent callers of operator(): where each is, its argument, the
  \* index it holds locally, its result
  t_pc, t_xi, t_index, t_ret,
  \* RootOutput: the options, the members, the two trees, the files on disk
  write_particles_, write_collisions_, particles_only_final_,
  autosave_frequency_, output_counter_, current_event_,
  particles_tree_, collisions_tree_, saved, files, w_pc,
  \* the simulation driver: the event it is in, the calls made within it
  d_phase, d_event, d_inter,
  \* history: the last callback, the at_eventend calls so far, what the last
  \* at_eventend did about the checkpoint, the particles tree as it was when
  \* the current event started
  last_op, completed, autosave, ev_base

ivars == <<pc, in_x, in_y, thrown, first_x_, last_x_, first_y_, last_y_,
           spline_, acc_, xi, ret>>
tvars == <<t_pc, t_xi, t_index, t_ret>>
wvars == <<write_particles_, write_collisions_, particles_only_final_,
           autosave_frequency_, output_counter_, current_event_,
           particles_tree_, collisions_tree_, saved, files, w_pc,
           d_phase, d_event, d_inter, last_op, completed, autosave, ev_base>>
vars == <<ivars, tvars, wvars>>

\* ------------------------------------------------------------------------
\* InterpolateDataSpline::InterpolateDataSpline
\* ------------------------------------------------------------------------
\* The three std::runtime_error messages of the constructor.
InvalidInput == "Need two vectors of equal length for interpolation."
InsufficientData == "Need at least 3 data points for cubic spline interpolation."
DuplicateAbscissa == "InterpolateDataSpline: Each x value must be unique."

\* throw std::runtime_error(what); `found` is the number printed between the
\* quotes of the third message. No object exists.
Throw(what, found) ==
  [thrown |-> [what |-> what, found |-> found],
   first_x_ |-> NoNumber, last_x_ |-> NoNumber,
   first_y_ |-> NoNumber, last_y_ |-> NoNumber,
   acc_ |-> NoAccel, spline_ |-> NoSpline]

\* The loop over sorted_x: the first i with sorted_x[i] == sorted_x[i + 1],
\* 0 when there is none.
FirstEqualNeighbours(sorted_x) ==
  LET hits == {i \in 1..(Len(sorted_x) - 1) : sorted_x[i] = sorted_x[i + 1]}
  IN  IF hits = {} THEN 0 ELSE CHOOSE i \in hits : \A j \in hits : i <= j

\* The members set once validation has passed.
Members(sorted_x, sorted_y) ==
  [thrown |-> [what |-> NoMessage, found |-> NoNumber],
   first_x_ |-> sorted_x[1], last_x_ |-> sorted_x[Len(sorted_x)],
   first_y_ |-> sorted_y[1], last_y_ |-> sorted_y[Len(sorted_y)],
   acc_ |-> gsl_interp_accel_alloc,
   spline_ |-> gsl_spline_init(sorted_x, sorted_y)]

\* Mutant: the size check before the length check.
ConstructorSizeFirst(x, y) ==
  LET N == Len(x)
  IN  IF N < 3 THEN Throw(InsufficientData, NoNumber)
      ELSE IF Len(y) # N THEN Throw(InvalidInput, NoNumber)
      ELSE LET p == generate_sort_permutation(x)
               sorted_x == apply_permutation(x, p)
               sorted_y == apply_permutation(y, p)
               dup == FirstEqualNeighbours(sorted_x)
           IN  IF dup # 0
               THEN Throw(DuplicateAbscissa, StreamDouble(sorted_x[dup]))
               ELSE Members(sorted_x, sorted_y)

\* Mutant: an off-by-one size check (N <= 3).
ConstructorOffByOne(x, y) ==
  LET N == Len(x)
  IN  IF Len(y) # N THEN Throw(InvalidInput, NoNumber)
      ELSE IF N <= 3 THEN Throw(InsufficientData, NoNumber)
      ELSE LET p == generate_sort_permutation(x)
               sorted_x == apply_permutation(x, p)
               sorted_y == apply_permutation(y, p)
               dup == FirstEqualNeighbours(sorted_x)
           IN  IF dup # 0
               THEN Throw(DuplicateAbscissa, StreamDouble(sorted_x[dup]))
               ELSE Members(sorted_x, sorted_y)

\* Mutant: y is not permuted with x.
ConstructorUnpairedY(x, y) ==
  LET N == Len(x)
  IN  IF Len(y) # N THEN Throw(InvalidInput, NoNumber)
      ELSE IF N < 3 THEN Throw(InsufficientData, NoNumber)
      ELSE LET p == generate_sort_permutation(x)
               sorted_x == apply_permutation(x, p)
               sorted_y == y
               dup == FirstEqualNeighbours(sorted_x)
           IN  IF dup # 0
               THEN Throw(DuplicateAbscissa, StreamDouble(sorted_x[dup]))
               ELSE Members(sorted_x, sorted_y)

\* Mutant: the spline is initialised with the caller's y, the boundary
\* values with the sorted one.
ConstructorSplineUnsorted(x, y) ==
  LET N == Len(x)
  IN  IF Len(y) # N THEN Throw(InvalidInput, NoNumber)
      ELSE IF N < 3 THEN Throw(InsufficientData, NoNumber)
      ELSE LET p == generate_sort_permutation(x)
               sorted_x == apply_permutation(x, p)
               sorted_y == apply_permutation(y, p)
               dup == FirstEqualNeighbours(sorted_x)
           IN  IF dup # 0
               THEN Throw(DuplicateAbscissa, StreamDouble(sorted_x[dup]))
               ELSE [Members(sorted_x, sorted_y) EXCEPT
                       !.spline_ = gsl_spline_init(sorted_x, y)]

\* The constructor: what it throws, or the members it leaves.
Constructor(x, y) ==
  LET N == Len(x)
  IN  IF Len(y) # N THEN Throw(InvalidInput, NoNumber)
      ELSE IF N < 3 THEN Throw(InsufficientData, NoNumber)
      ELSE LET p == generate_sort_permutation(x)
               sorted_x == apply_permutation(x, p)
               sorted_y == apply_permutation(y, p)
               dup == FirstEqualNeighbours(sorted_x)
           IN  IF dup # 0
               THEN Throw(DuplicateAbscissa, StreamDouble(sorted_x[dup]))
               ELSE Members(sorted_x, sorted_y)

\* ------------------------------------------------------------------------
\* InterpolateDataSpline::operator()
\* ------------------------------------------------------------------------
\* The value returned for x and the accelerator afterwards, for one call
\* that runs alone on the object o.
Evaluate(o, x) ==
  IF RLt(x, R(o.first_x_)) THEN [value |-> R(o.first_y_), acc |-> o.acc_]
  ELSE IF RGt(x, R(o.last_x_)) THEN [value |-> R(o.last_y_), acc |-> o.acc_]
  ELSE gsl_spline_eval(o.spline_, x, o.acc_)

Self ==
  [first_x_ |-> first_x_, last_x_ |-> last_x_, first_y_ |-> first_y_,
   last_y_ |-> last_y_, spline_ |-> spline_, acc_ |-> acc_]

\* ------------------------------------------------------------------------
\* Inputs
\* ------------------------------------------------------------------------
SeqsUpTo(S, n) == UNION {[1..k -> S] : k \in 0..n}

Occurrences(s, v) == Cardinality({i \in 1..Len(s) : s[i] = v})

\* Abscissa vectors: any order, duplicates allowed. BigX occurs twice or not
\* at all: a spline through it has coefficients beyond 32-bit integers, and
\* two occurrences never reach the spline.
XInputs ==
  {s \in SeqsUpTo((0..MaxX) \cup {BigX}, MaxLen) : Occurrences(s, BigX) # 1}

\* Ordinate vectors over two values: the spline and both boundary values
\* are linear in y, and 0/1 vectors tell every pairing of x and y apart.
YInputs == SeqsUpTo({0, 1}, MaxLen)

\* The arguments of operator(): every half-integer from below the grid to
\* above it, so the samples, the points between them and both outsides.
Queries == {RNorm(q, 2) : q \in (-1)..(2 * MaxX + 1)}

\* ------------------------------------------------------------------------
\* Specification of the interpolator used by one caller
\* ------------------------------------------------------------------------
Callers == 1..NumCallers

\* No RootOutput exists.
NoWriter ==
  /\ write_particles_ = FALSE /\ write_collisions_ = FALSE
  /\ particles_only_final_ = "No"
  /\ autosave_frequency_ = DefaultAutosaveFrequency
  /\ output_counter_ = 0 /\ current_event_ = 0
  /\ particles_tree_ = <<>> /\ collisions_tree_ = <<>>
  /\ saved = [particles |-> 0, collisions |-> 0]
  /\ files = {}
  /\ w_pc = "none"
  /\ d_phase = "idle" /\ d_event = 0 /\ d_inter = 0
  /\ last_op = "none" /\ completed = 0 /\ autosave = "none" /\ ev_base = <<>>

NoCallers ==
  /\ t_pc = [t \in Callers |-> "idle"]
  /\ t_xi = [t \in Callers |-> NoRational]
  /\ t_index = [t \in Callers |-> NoNumber]
  /\ t_ret = [t \in Callers |-> NoRational]

Init ==
  /\ pc = "new"
  /\ in_x \in XInputs
  /\ in_y \in YInputs
  /\ thrown = [what |-> NoMessage, found |-> NoNumber]
  /\ first_x_ = NoNumber /\ last_x_ = NoNumber
  /\ first_y_ = NoNumber /\ last_y_ = NoNumber
  /\ spline_ = NoSpline /\ acc_ = NoAccel
  /\ xi = NoRational /\ ret = NoRational
  /\ NoCallers
  /\ NoWriter

Construct ==
  /\ pc = "new"
  /\ LET o == Constructor(in_x, in_y)
     IN  /\ thrown' = o.thrown
         /\ first_x_' = o.first_x_ /\ last_x_' = o.last_x_
         /\ first_y_' = o.first_y_ /\ last_y_' = o.last_y_
         /\ acc_' = o.acc_ /\ spline_' = o.spline_
         /\ pc' = IF o.thrown.what = NoMessage THEN "built" ELSE "failed"
  /\ UNCHANGED <<in_x, in_y, xi, ret, tvars, wvars>>

Call ==
  /\ pc = "built"
  /\ acc_.hit_count + acc_.miss_count < MaxEvals
  /\ \E q \in Queries :
       LET r == Evaluate(Self, q)
       IN  /\ xi' = q
           /\ ret' = r.value
           /\ acc_' = r.acc
  /\ UNCHANGED <<pc, in_x, in_y, thrown, first_x_, last_x_, first_y_, last_y_,
                 spline_, tvars, wvars>>

Next == Construct \/ Call

Spec == Init /\ [][Next]_vars

\* ------------------------------------------------------------------------
\* Specification of one interpolator shared by concurrent callers.
\* operator() is const and takes no lock; its steps interleave at each access
\* to the shared accelerator *acc_ inside gsl_interp_accel_find.
\* ------------------------------------------------------------------------
IsAscending(s) == \A i \in 1..(Len(s) - 1) : s[i] < s[i + 1]

\* The shared interpolator is built from a valid input, here in ascending
\* order (the sort is exercised by Spec).
InitShared ==
  /\ pc = "built"
  /\ in_x \in {s \in XInputs : Len(s) >= 3 /\ IsAscending(s)}
  /\ in_y \in {s \in YInputs : Len(s) = Len(in_x)}
  /\ LET o == Constructor(in_x, in_y)
     IN  /\ thrown = o.thrown
         /\ first_x_ = o.first_x_ /\ last_x_ = o.last_x_
         /\ first_y_ = o.first_y_ /\ last_y_ = o.last_y_
         /\ acc_ = o.acc_ /\ spline_ = o.spline_
  /\ xi = NoRational /\ ret = NoRational
  /\ NoCallers
  /\ NoWriter

\* operator() up to the call of gsl_spline_eval: the two extrapolation
\* branches read only members that nothing writes.
CallBegin(t) ==
  /\ t_pc[t] = "idle"
  /\ \E q \in Queries :
       /\ t_xi' = [t_xi EXCEPT ![t] = q]
       /\ IF RLt(q, R(first_x_))
          THEN /\ t_ret' = [t_ret EXCEPT ![t] = R(first_y_)]
               /\ t_pc' = [t_pc EXCEPT ![t] = "done"]
          ELSE IF RGt(q, R(last_x_))
               THEN /\ t_ret' = [t_ret EXCEPT ![t] = R(last_y_)]
                    /\ t_pc' = [t_pc EXCEPT ![t] = "done"]
               ELSE /\ t_ret' = t_ret
                    /\ t_pc' = [t_pc EXCEPT ![t] = "find"]
  /\ UNCHANGED <<ivars, t_index, wvars>>

\* gsl_interp_accel_find: size_t x_index = a->cache;
AccelRead(t) ==
  /\ t_pc[t] = "find"
  /\ t_index' = [t_index EXCEPT ![t] = acc_.cache]
  /\ t_pc' = [t_pc EXCEPT ![t] = "update"]
  /\ UNCHANGED <<pc, in_x, in_y, thrown, first_x_, last_x_, first_y_, last_y_,
                 spline_, acc_, xi, ret, t_xi, t_ret, wvars>>

\* gsl_interp_accel_find: the comparison with xa[x_index], the counter and
\* the store to a->cache. The caller keeps the index it computed.
AccelWrite(t) ==
  /\ t_pc[t] = "update"
  /\ LET a == AccelUpdate(acc_, spline_, t_xi[t], t_index[t])
         own == AccelUpdate([acc_ EXCEPT !.cache = t_index[t]], spline_,
                            t_xi[t], t_index[t]).cache
     IN  /\ acc_' = a
         /\ t_index' = [t_index EXCEPT ![t] = own]
  /\ t_pc' = [t_pc EXCEPT ![t] = "return"]
  /\ UNCHANGED <<pc, in_x, in_y, thrown, first_x_, last_x_, first_y_, last_y_,
                 spline_, xi, ret, t_xi, t_ret, wvars>>

\* gsl_interp_accel_find: return a->cache; then cspline_eval on that
\* interval. The read races with the other callers' stores: the build may
\* load a->cache again (Reload) or keep the index it has in a register.
AccelReturn(t, index) ==
  /\ t_pc[t] = "return"
  /\ t_ret' = [t_ret EXCEPT ![t] = cspline_eval(spline_, t_xi[t], index)]
  /\ t_pc' = [t_pc EXCEPT ![t] = "done"]
  /\ UNCHANGED <<ivars, t_xi, t_index, wvars>>

ReturnReloaded(t) == AccelReturn(t, acc_.cache)
ReturnRegister(t) == AccelReturn(t, t_index[t])

NextShared ==
  \E t \in Callers :
    \/ CallBegin(t)
    \/ AccelRead(t)
    \/ AccelWrite(t)
    \/ ReturnReloaded(t)
    \/ ReturnRegister(t)

SpecShared == InitShared /\ [][NextShared]_vars

\* ------------------------------------------------------------------------
\* RootOutput
\* ------------------------------------------------------------------------
\* filename_ and filename_unfinished_
filename_ == "smash_run.root"
filename_unfinished_ == "smash_run.root.unfinished"

\* Mutant: the ev buffer is never set.
particles_to_tree_stale_ev(tree, event, counter) ==
  Append(tree, [ev |-> 0, tcounter |-> counter])

\* particles_to_tree: one block of the particles tree, tagged with the
\* current event number (ev) and the output-block counter (tcounter).
particles_to_tree(tree, event, counter) ==
  Append(tree, [ev |-> event, tcounter |-> counter])

\* collisions_to_tree: one row of the collisions tree, tagged with the
\* current event number.
collisions_to_tree(tree, event) == Append(tree, [ev |-> event])

\* Mutant: particles_only_final_ is not consulted.
WritesIntermediateAlways(particles, only_final) == particles

\* Whether at_eventstart and at_intermediate_time write a block.
WritesIntermediate(particles, only_final) == particles /\ only_final = "No"

\* Mutant: the checkpoint is decided on the counter before it advanced.
AutosaveDueBefore(event, frequency) == (event - 1) % frequency = 0

\* Whether at_eventend reaches a checkpoint, the event counter advanced.
AutosaveDue(event, frequency) == event % frequency = 0

\* The trees' sizes, as AutoSave and the final Write put them on disk.
OnDisk(particles, collisions) ==
  [particles |-> Len(particles), collisions |-> Len(collisions)]

\* Mutant: the file is copied to its final name, not renamed.
FinalizeByCopy(fs) == fs \cup {filename_}

\* What the destructor leaves of the files: Write, Close, rename.
Finalize(fs) == (fs \ {filename_unfinished_}) \cup {filename_}

\* The writer right after its constructor: the options are set, both trees
\* are empty, the file exists under its unfinished name.
InitWriter ==
  /\ write_particles_ \in BOOLEAN
  /\ write_collisions_ \in BOOLEAN
  /\ particles_only_final_ \in {"Yes", "No"}
  /\ autosave_frequency_ \in (1..MaxFrequency) \cup {DefaultAutosaveFrequency}
  /\ output_counter_ = 0 /\ current_event_ = 0
  /\ particles_tree_ = <<>> /\ collisions_tree_ = <<>>
  /\ saved = [particles |-> 0, collisions |-> 0]
  /\ files = {filename_unfinished_}
  /\ w_pc = "open"
  /\ d_phase = "idle" /\ d_event = 0 /\ d_inter = 0
  /\ last_op = "none" /\ completed = 0 /\ autosave = "none" /\ ev_base = <<>>
  /\ pc = "new" /\ in_x = <<>> /\ in_y = <<>>
  /\ thrown = [what |-> NoMessage, found |-> NoNumber]
  /\ first_x_ = NoNumber /\ last_x_ = NoNumber
  /\ first_y_ = NoNumber /\ last_y_ = NoNumber
  /\ spline_ = NoSpline /\ acc_ = NoAccel
  /\ xi = NoRational /\ ret = NoRational
  /\ NoCallers

\* at_eventstart(particles, event_number): the driver numbers its events
\* 0, 1, 2, ... and calls the callbacks of one event in order.
at_eventstart ==
  /\ w_pc = "open" /\ d_phase = "idle" /\ d_event < MaxEvents
  /\ current_event_' = d_event
  /\ IF WritesIntermediate(write_particles_, particles_only_final_)
     THEN /\ particles_tree_' = particles_to_tree(particles_tree_, d_event, 0)
          /\ output_counter_' = 1
     ELSE /\ particles_tree_' = particles_tree_
          /\ output_counter_' = 0
  /\ d_phase' = "event" /\ d_inter' = 0
  /\ ev_base' = particles_tree_
  /\ last_op' = "at_eventstart"
  /\ UNCHANGED <<write_particles_, write_collisions_, particles_only_final_,
                 autosave_frequency_, collisions_tree_, saved, files, w_pc,
                 d_event, completed, autosave, ivars, tvars>>

\* at_intermediate_time(particles, clock, dens_param)
at_intermediate_time ==
  /\ w_pc = "open" /\ d_phase = "event" /\ d_inter < MaxIntermediate
  /\ IF WritesIntermediate(write_particles_, particles_only_final_)
     THEN /\ particles_tree_' =
               particles_to_tree(particles_tree_, current_event_, output_counter_)
          /\ output_counter_' = output_counter_ + 1
     ELSE UNCHANGED <<particles_tree_, output_counter_>>
  /\ d_inter' = d_inter + 1
  /\ last_op' = "at_intermediate_time"
  /\ UNCHANGED <<write_particles_, write_collisions_, particles_only_final_,
                 autosave_frequency_, current_event_, collisions_tree_, saved,
                 files, w_pc, d_phase, d_event, completed, autosave, ev_base,
                 ivars, tvars>>

\* at_interaction(action, density)
at_interaction ==
  /\ w_pc = "open" /\ d_phase = "event"
  /\ Len(collisions_tree_) < MaxInteractions
  /\ write_collisions_
  /\ collisions_tree_' = collisions_to_tree(collisions_tree_, current_event_)
  /\ last_op' = "at_interaction"
  /\ UNCHANGED <<write_particles_, write_collisions_, particles_only_final_,
                 autosave_frequency_, output_counter_, current_event_,
                 particles_tree_, saved, files, w_pc, d_phase, d_event,
                 d_inter, completed, autosave, ev_base, ivars, tvars>>

\* at_eventend(particles, event_number, impact_parameter, empty_event): the
\* final block, the event counter advanced, then the checkpoint when one is
\* due. flushed tells whether the checkpoint's write succeeds; when it fails
\* the error propagates to the driver.
at_eventend(flushed) ==
  /\ w_pc = "open" /\ d_phase = "event"
  /\ LET tree == IF write_particles_
                 THEN particles_to_tree(particles_tree_, current_event_,
                                        output_counter_)
                 ELSE particles_tree_
         due == AutosaveDue(current_event_ + 1, autosave_frequency_)
     IN  /\ particles_tree_' = tree
         /\ output_counter_' =
              IF write_particles_ THEN output_counter_ + 1 ELSE output_counter_
         /\ current_event_' = current_event_ + 1
         /\ due \/ flushed   \* nothing is flushed, so nothing fails, when not due
         /\ autosave' = IF ~due THEN "none"
                        ELSE IF flushed THEN "done" ELSE "failed"
         /\ saved' = IF due /\ flushed THEN OnDisk(tree, collisions_tree_)
                     ELSE saved
         /\ w_pc' = IF due /\ ~flushed THEN "unwinding" ELSE "open"
  /\ d_phase' = "idle" /\ d_event' = d_event + 1
  /\ completed' = completed + 1
  /\ last_op' = "at_eventend"
  /\ UNCHANGED <<write_particles_, write_collisions_, particles_only_final_,
                 autosave_frequency_, collisions_tree_, files, d_inter,
                 ev_base, ivars, tvars>>

\* ~RootOutput, on the normal path or while an exception unwinds the
\* driver: everything is written, the file is closed and renamed.
Destructor ==
  /\ w_pc \in {"open", "unwinding"}
  /\ saved' = OnDisk(particles_tree_, collisions_tree_)
  /\ files' = Finalize(files)
  /\ w_pc' = "closed"
  /\ last_op' = "destructor"
  /\ UNCHANGED <<write_particles_, write_collisions_, particles_only_final_,
                 autosave_frequency_, output_counter_, current_event_,
                 particles_tree_, collisions_tree_, d_phase, d_event, d_inter,
                 completed, autosave, ev_base, ivars, tvars>>

\* The process ends without the destructor (a crash, an abort): what is left
\* of the trees is what the last checkpoint put on disk.
Crash ==
  /\ w_pc \in {"open", "unwinding"}
  /\ particles_tree_' = SubSeq(particles_tree_, 1, saved.particles)
  /\ collisions_tree_' = SubSeq(collisions_tree_, 1, saved.collisions)
  /\ w_pc' = "crashed"
  /\ last_op' = "crash"
  /\ UNCHANGED <<write_particles_, write_collisions_, particles_only_final_,
                 autosave_frequency_, output_counter_, current_event_, saved,
                 files, d_phase, d_event, d_inter, completed, autosave,
                 ev_base, ivars, tvars>>

NextWriter ==
  \/ at_eventstart
  \/ at_intermediate_time
  \/ at_interaction
  \/ \E flushed \in BOOLEAN : at_eventend(flushed)
  \/ Destructor
  \/ Crash

SpecWriter == InitWriter /\ [][NextWriter]_vars


\* ------------------------------------------------------------------------
\* Properties of the interpolator (specification Spec)
\* ------------------------------------------------------------------------
Constructed == pc # "new"
Called == pc = "built" /\ xi # NoRational
EqualLength == Len(in_x) = Len(in_y)
HasDuplicate == \E i, j \in DOMAIN in_x : i # j /\ in_x[i] = in_x[j]
\* positions of the smallest and of the largest abscissa of the input
ArgMin == CHOOSE i \in DOMAIN in_x : \A j \in DOMAIN in_x : in_x[i] <= in_x[j]
ArgMax == CHOOSE i \in DOMAIN in_x : \A j \in DOMAIN in_x : in_x[i] >= in_x[j]
\* the smallest value that occurs at two positions of the input
SmallestDuplicate ==
  CHOOSE v \in {in_x[i] : i \in DOMAIN in_x} :
    /\ Occurrences(in_x, v) >= 2
    /\ \A i \in DOMAIN in_x : Occurrences(in_x, in_x[i]) >= 2 => v <= in_x[i]

\* C1: for a valid input given in any order, a call below min(x) returns
\* exactly the y that was paired with min(x) in the input, and a call above
\* max(x) exactly the y that was paired with max(x).
C1_ConstantExtrapolation ==
  Called =>
    /\ RLt(xi, R(in_x[ArgMin])) => ret = R(in_y[ArgMin])
    /\ RGt(xi, R(in_x[ArgMax])) => ret = R(in_y[ArgMax])

\* C1 witness: an unsorted input whose smallest abscissa is not first and is
\* paired with another y than the first one, called below the domain.
C1_Witness ==
  /\ Called
  /\ ArgMin # 1
  /\ in_y[ArgMin] # in_y[1]
  /\ RLt(xi, R(in_x[ArgMin]))
  /\ ret = R(in_y[ArgMin])

\* C2: vectors of different lengths always fail with the length-mismatch
\* error, whatever the lengths and the values, and no object is produced.
C2_LengthMismatchFirst ==
  (Constructed /\ ~EqualLength) =>
    /\ pc = "failed"
    /\ thrown.what = InvalidInput
    /\ spline_ = NoSpline /\ acc_ = NoAccel

\* C2 witness: the length mismatch reported for an x that holds a duplicate
\* and a y of fewer than 3 values.
C2_Witness ==
  /\ pc = "failed"
  /\ thrown.what = InvalidInput
  /\ Len(in_x) >= 3 /\ HasDuplicate /\ Len(in_y) < 3

\* C3: equal-length vectors of fewer than 3 points always fail with the
\* too-few-points error, duplicates or not; 3 or more points never do.
C3_TooFewPoints ==
  Constructed =>
    /\ (EqualLength /\ Len(in_x) < 3) =>
         (pc = "failed" /\ thrown.what = InsufficientData)
    /\ Len(in_x) >= 3 => thrown.what # InsufficientData

\* C3 witness: two equal abscissae, two ordinates.
C3_Witness ==
  /\ pc = "failed"
  /\ thrown.what = InsufficientData
  /\ Len(in_x) = 2 /\ Len(in_y) = 2 /\ HasDuplicate

\* C4: for equal lengths and N >= 3, construction fails with the duplicate
\* error exactly when some value occurs at two positions of x, the error names
\* the smallest such value, which occurs at least twice in x, and construction
\* succeeds when all x are distinct.
C4_DuplicateNamed ==
  (Constructed /\ EqualLength /\ Len(in_x) >= 3) =>
    /\ thrown.what = DuplicateAbscissa <=> HasDuplicate
    /\ HasDuplicate =>
         /\ thrown.found = SmallestDuplicate
         /\ Occurrences(in_x, thrown.found) >= 2
    /\ ~HasDuplicate => pc = "built"

\* What holds of the duplicate error: it is thrown exactly when a value
\* occurs twice, and the number printed in it is the smallest such value as
\* the stream prints it, which is that value when it has at most Precision
\* significant digits.
DuplicateDetected ==
  (Constructed /\ EqualLength /\ Len(in_x) >= 3) =>
    /\ thrown.what = DuplicateAbscissa <=> HasDuplicate
    /\ HasDuplicate =>
         /\ thrown.found = StreamDouble(SmallestDuplicate)
         /\ NumDigits(SmallestDuplicate) <= Precision =>
              /\ thrown.found = SmallestDuplicate
              /\ Occurrences(in_x, thrown.found) >= 2
    /\ ~HasDuplicate => pc = "built"

\* C5: the interpolant passes through every sample of a valid input, the
\* two end points included, and a call at a sample is served by the spline
\* (it goes through the accelerator), not by an extrapolation branch.
C5_PassesThroughSamples ==
  Called =>
    \A i \in DOMAIN in_x :
      xi = R(in_x[i]) =>
        /\ ret = R(in_y[i])
        /\ acc_.hit_count + acc_.miss_count >= 1

\* C5 witness: an unsorted input called at its largest abscissa, which is
\* neither first nor last in the input.
C5_Witness ==
  /\ Called
  /\ ArgMax # 1 /\ ArgMax # Len(in_x)
  /\ in_y[ArgMax] # in_y[Len(in_x)]
  /\ xi = R(in_x[ArgMax])
  /\ ret = R(in_y[ArgMax])
  /\ acc_.miss_count = 1


\* ------------------------------------------------------------------------
\* Properties of the shared interpolator (specification SpecShared)
\* ------------------------------------------------------------------------
\* the object as the constructor left it
AsBuilt == [Self EXCEPT !.acc_ = gsl_interp_accel_alloc]

\* One caller: the value of a call does not depend on the calls made before
\* it, although every call inside the domain writes the accelerator.
SequentialCallsRepeatable ==
  Called => ret = Evaluate(AsBuilt, xi).value

\* The premise of C6: operator() writes no state of the interpolator, the
\* accelerator included.
AcceleratorNeverWritten == pc = "built" => acc_ = gsl_interp_accel_alloc

\* C6: callers may evaluate concurrently in any interleaving and each call
\* returns the value it would return when run alone.
C6_ConcurrentCallsAgree ==
  \A t \in Callers :
    t_pc[t] = "done" => t_ret[t] = Evaluate(AsBuilt, t_xi[t]).value


\* ------------------------------------------------------------------------
\* Properties of the writer (specification SpecWriter)
\* ------------------------------------------------------------------------
\* the blocks the particles tree gained since the current event started
Gained == SubSeq(particles_tree_, Len(ev_base) + 1, Len(particles_tree_))

IntermediateStep == last_op' = "at_intermediate_time" /\ d_inter' # d_inter

OneBlockCommitted ==
  /\ Len(particles_tree_') = Len(particles_tree_) + 1
  /\ SubSeq(particles_tree_', 1, Len(particles_tree_)) = particles_tree_

CrashAfterCheckpoint ==
  /\ w_pc = "open" /\ w_pc' = "crashed"
  /\ last_op = "at_eventend" /\ autosave = "done"

\* C9: at_eventend reaches the checkpoint exactly when the number of
\* completed events is a positive multiple of autosave_frequency_; a
\* checkpoint that succeeded has every committed row on disk, and a crash
\* right after it loses none.
C9_AutosaveEveryNth ==
  /\ [](last_op = "at_eventend" =>
          /\ autosave # "none" <=>
               (completed > 0 /\ completed % autosave_frequency_ = 0)
          /\ autosave = "done" =>
               saved = OnDisk(particles_tree_, collisions_tree_))
  /\ [][CrashAfterCheckpoint =>
          UNCHANGED <<particles_tree_, collisions_tree_>>]_vars

\* C9 witness: frequency 2, a crash right after the second event's
\* checkpoint, all four blocks recovered.
C9_Witness ==
  /\ w_pc = "crashed" /\ d_phase = "idle"
  /\ autosave_frequency_ = 2 /\ completed = 2 /\ autosave = "done"
  /\ Len(particles_tree_) = 4

\* C10: while the writer is open the output exists only under the unfinished
\* name, also while a failed checkpoint unwinds the driver; after the
\* destructor only under the final name; after a crash only under the
\* unfinished name. Never both, never the final name while open.
C10_FileNames ==
  /\ w_pc \in {"open", "unwinding", "crashed"} => files = {filename_unfinished_}
  /\ w_pc = "closed" => files = {filename_}

\* C10 witness: the destructor ran after a checkpoint failed.
C10_Witness ==
  /\ w_pc = "closed" /\ last_op = "destructor"
  /\ autosave = "failed"
  /\ files = {filename_}

=============================================================================
